---- MODULE Spec2Model ----
(***************************************************************************)
(* Model of the color_parser crate (src/src/lib.rs).                       *)
(*                                                                         *)
(* A Rust &str is modelled as a sequence of Unicode scalar values (code    *)
(* points); its byte length and byte slicing follow the UTF-8 encoding.    *)
(* A call that panics is modelled by the outcome [tag |-> "Panic"].        *)
(***************************************************************************)
EXTENDS Integers, Sequences, FiniteSets, TLC

VARIABLES input, result, color, hsl, hsv, cmyk, pc

vars == <<input, result, color, hsl, hsv, cmyk, pc>>

(***************************************************************************)
(* Bounds of the checked input domain.                                     *)
(***************************************************************************)
\* longest body (the part after the leading '#' characters) that is tried
MaxLen == 8
\* largest number of leading '#' characters that is tried
MaxHashes == 2

(***************************************************************************)
(* Outcomes: Result<T, ColorParserError>, and the abort of the call.       *)
(***************************************************************************)
None == [tag |-> "None"]
Panic == [tag |-> "Panic"]
Err(kind) == [tag |-> "Err", kind |-> kind]
Ok(v) == [tag |-> "Ok", val |-> v]

Rgba(r, g, b, a) == [red |-> r, green |-> g, blue |-> b, alpha |-> a]

(***************************************************************************)
(* Strings.                                                                *)
(***************************************************************************)
\* char::len_utf8: the number of bytes of a scalar value in UTF-8
Utf8Len(c) == IF c < 128 THEN 1 ELSE IF c < 2048 THEN 2 ELSE IF c < 65536 THEN 3 ELSE 4

\* str::len: the length of a string in bytes
RECURSIVE ByteLen(_)
ByteLen(s) == IF s = <<>> THEN 0 ELSE Utf8Len(Head(s)) + ByteLen(Tail(s))

\* byte offset at which the i-th character (1-based) of s starts
ByteOffset(s, i) == ByteLen(SubSeq(s, 1, i - 1))

\* str::is_char_boundary
IsCharBoundary(s, k) == \E i \in 1..(Len(s) + 1) : ByteOffset(s, i) = k

\* &s[lo..hi]: the characters in the byte range, or Panic when an end of the
\* range is not a character boundary
ByteSlice(s, lo, hi) ==
    IF IsCharBoundary(s, lo) /\ IsCharBoundary(s, hi)
    THEN LET first == CHOOSE i \in 1..(Len(s) + 1) : ByteOffset(s, i) = lo
             next  == CHOOSE i \in 1..(Len(s) + 1) : ByteOffset(s, i) = hi
         IN  Ok(SubSeq(s, first, next - 1))
    ELSE Panic

\* hex.trim_start_matches('#'): removes every leading '#' (code point 35)
RECURSIVE TrimStartMatches(_)
TrimStartMatches(s) ==
    IF s # <<>> /\ Head(s) = 35 THEN TrimStartMatches(Tail(s)) ELSE s

\* for ch in hex.chars() { s.push(ch); s.push(ch); }
RECURSIVE DoubleChars(_)
DoubleChars(s) ==
    IF s = <<>> THEN <<>> ELSE <<Head(s), Head(s)>> \o DoubleChars(Tail(s))

\* the match on hex.len(): the 8-byte expanded form, or the error
ExpandZeroAlpha(hex) ==
    LET n == ByteLen(hex)
    IN  IF n = 8 THEN Ok(hex)
        ELSE IF n = 6 THEN Ok(hex \o <<70, 70>>)
        ELSE IF n = 4 THEN Ok(DoubleChars(hex))
        ELSE IF n = 3 THEN Ok(DoubleChars(hex) \o <<48, 48>>)
        ELSE Err("InvalidLength")

Expand(hex) ==
    LET n == ByteLen(hex)
    IN  IF n = 8 THEN Ok(hex)
        ELSE IF n = 6 THEN Ok(hex \o <<70, 70>>)
        ELSE IF n = 4 THEN Ok(DoubleChars(hex))
        ELSE IF n = 3 THEN Ok(DoubleChars(hex) \o <<70, 70>>)
        ELSE Err("InvalidLength")

\* char::to_digit(16): the value of a hex digit, -1 when it is not one
ToDigitUpperOnly(c) ==
    IF c >= 48 /\ c <= 57 THEN c - 48
    ELSE IF c >= 65 /\ c <= 70 THEN c - 55
    ELSE -1

ToDigit(c) ==
    IF c >= 48 /\ c <= 57 THEN c - 48
    ELSE IF c >= 65 /\ c <= 70 THEN c - 55
    ELSE IF c >= 97 /\ c <= 102 THEN c - 87
    ELSE -1

\* the digit loop of u8::from_str_radix: -1 on an invalid digit or overflow
RECURSIVE ParseDigits(_, _)
ParseDigits(s, acc) ==
    IF s = <<>> THEN acc
    ELSE LET d == ToDigit(Head(s))
         IN  IF d < 0 \/ acc * 16 + d > 255 THEN -1
             ELSE ParseDigits(Tail(s), acc * 16 + d)

\* u8::from_str_radix(src, 16): an empty string and a lone sign are errors,
\* one leading '+' (43) is skipped, '-' (45) is no sign of an unsigned type
FromStrRadix(src) ==
    IF src = <<>> THEN -1
    ELSE IF Len(src) = 1 /\ Head(src) \in {43, 45} THEN -1
    ELSE IF Head(src) = 43 THEN ParseDigits(Tail(src), 0)
    ELSE ParseDigits(src, 0)

\* one channel: u8::from_str_radix(&expanded[lo..hi], 16).map_err(..)
Channel(expanded, lo, hi) ==
    LET slice == ByteSlice(expanded, lo, hi)
    IN  IF slice.tag = "Panic" THEN Panic
        ELSE LET v == FromStrRadix(slice.val)
             IN  IF v < 0 THEN Err("InvalidCharacter") ELSE Ok(v)

\* parse_hex_to_rgba after the '#' characters are trimmed
ParseBody(hex) ==
    LET expanded == Expand(hex)
    IN  IF expanded.tag = "Err" THEN expanded
        ELSE
        LET red == Channel(expanded.val, 0, 2)
        IN  IF red.tag # "Ok" THEN red ELSE
        LET green == Channel(expanded.val, 2, 4)
        IN  IF green.tag # "Ok" THEN green ELSE
        LET blue == Channel(expanded.val, 4, 6)
        IN  IF blue.tag # "Ok" THEN blue ELSE
        LET alpha == Channel(expanded.val, 6, 8)
        IN  IF alpha.tag # "Ok" THEN alpha ELSE
            IF \/ red.val \notin 0..255
               \/ green.val \notin 0..255
               \/ blue.val \notin 0..255
               \/ alpha.val \notin 0..255
            THEN Err("InvalidRgbValue")
            ELSE Ok(Rgba(red.val, green.val, blue.val, alpha.val))

parse_hex_to_rgba(hex) == ParseBody(TrimStartMatches(hex))

(***************************************************************************)
(* The inputs that are tried: up to MaxHashes '#', then a body of at most  *)
(* MaxLen characters that is either made of the hex digits '3', 'a', 'A'   *)
(* or made of '3', 'a' with one other character at any position.           *)
(***************************************************************************)
HexChars == {51, 97, 65}
PlainChars == {51, 97}
\* '#', ' ', '+', '-', 'G', 'g', and a 2-, a 3- and a 4-byte character
OddChars == {35, 32, 43, 45, 71, 103, 233, 8364, 128512}

Strings(chars, n) == [1..n -> chars]

Bodies ==
    UNION {Strings(HexChars, n) : n \in 0..MaxLen}
    \cup UNION {{[s EXCEPT ![p] = c] : s \in Strings(PlainChars, n), p \in 1..n, c \in OddChars}
                    : n \in 1..MaxLen}

Hashes(k) == [i \in 1..k |-> 35]

Inputs == {Hashes(k) \o b : k \in 0..MaxHashes, b \in Bodies}

(***************************************************************************)
(* The parser as a state machine: one call of parse_hex_to_rgba.           *)
(***************************************************************************)
NoColor == Rgba(0, 0, 0, 0)

InitHex ==
    /\ input \in Inputs
    /\ result = None
    /\ color = NoColor
    /\ hsl = None
    /\ hsv = None
    /\ cmyk = None
    /\ pc = "parse"

ParseHexToRgba ==
    /\ pc = "parse"
    /\ result' = parse_hex_to_rgba(input)
    /\ pc' = "parsed"
    /\ UNCHANGED <<input, color, hsl, hsv, cmyk>>

NextHex == ParseHexToRgba

SpecHex == InitHex /\ [][NextHex]_vars

(***************************************************************************)
(* Natural numbers of any size, for the 53-bit significands of f64 and     *)
(* their products and quotients: little-endian sequences of limbs in       *)
(* 0..Base-1 without leading zero limbs; <<>> is zero.                     *)
(***************************************************************************)
LimbBits == 15
Base == 2^LimbBits

RECURSIVE BNorm(_)
BNorm(a) ==
    IF a # <<>> /\ a[Len(a)] = 0 THEN BNorm(SubSeq(a, 1, Len(a) - 1)) ELSE a

Limb(a, i) == IF i <= Len(a) THEN a[i] ELSE 0

RECURSIVE BAddFrom(_, _, _, _)
BAddFrom(a, b, i, carry) ==
    IF i > Len(a) /\ i > Len(b)
    THEN IF carry = 0 THEN <<>> ELSE <<carry>>
    ELSE LET x == Limb(a, i) + Limb(b, i) + carry
         IN  <<x % Base>> \o BAddFrom(a, b, i + 1, x \div Base)

BAdd(a, b) == BAddFrom(a, b, 1, 0)

\* a - b for a >= b
RECURSIVE BSubFrom(_, _, _, _)
BSubFrom(a, b, i, borrow) ==
    IF i > Len(a) THEN <<>>
    ELSE LET x == a[i] - Limb(b, i) - borrow
         IN  IF x < 0 THEN <<x + Base>> \o BSubFrom(a, b, i + 1, 1)
             ELSE <<x>> \o BSubFrom(a, b, i + 1, 0)

BSub(a, b) == BNorm(BSubFrom(a, b, 1, 0))

RECURSIVE BCmpAt(_, _, _)
BCmpAt(a, b, i) ==
    IF i = 0 THEN 0
    ELSE IF a[i] > b[i] THEN 1
    ELSE IF a[i] < b[i] THEN -1
    ELSE BCmpAt(a, b, i - 1)

\* -1, 0, 1 as a < b, a = b, a > b
BCmp(a, b) ==
    IF Len(a) > Len(b) THEN 1
    ELSE IF Len(a) < Len(b) THEN -1
    ELSE BCmpAt(a, b, Len(a))

\* a * k for 0 <= k <= Base
RECURSIVE BMulSmallFrom(_, _, _, _)
BMulSmallFrom(a, k, i, carry) ==
    IF i > Len(a) THEN IF carry = 0 THEN <<>> ELSE <<carry>>
    ELSE LET x == a[i] * k + carry
         IN  <<x % Base>> \o BMulSmallFrom(a, k, i + 1, x \div Base)

BMulSmall(a, k) == IF k = 0 THEN <<>> ELSE BMulSmallFrom(a, k, 1, 0)

RECURSIVE BMulFrom(_, _, _)
BMulFrom(a, b, i) ==
    IF i > Len(b) THEN <<>>
    ELSE BAdd(BMulSmall(a, b[i]), <<0>> \o BMulFrom(a, b, i + 1))

BMul(a, b) == BNorm(BMulFrom(a, b, 1))

Zeros(n) == [i \in 1..n |-> 0]

\* a * 2^n
BShl(a, n) ==
    IF a = <<>> THEN <<>>
    ELSE Zeros(n \div LimbBits) \o BMulSmall(a, 2^(n % LimbBits))

\* a \div 2^n
BShr(a, n) ==
    LET q == n \div LimbBits
        r == n % LimbBits
    IN  IF q >= Len(a) THEN <<>>
        ELSE BNorm([i \in 1..(Len(a) - q) |->
                      (a[i + q] \div 2^r) + (Limb(a, i + q + 1) % 2^r) * 2^(LimbBits - r)])

\* bit n (from 0) of a
BBit(a, n) == (Limb(a, n \div LimbBits + 1) \div 2^(n % LimbBits)) % 2

\* whether the n lowest bits of a are all 0
BLowZero(a, n) ==
    /\ \A i \in 1..(n \div LimbBits) : Limb(a, i) = 0
    /\ Limb(a, n \div LimbBits + 1) % 2^(n % LimbBits) = 0

RECURSIVE IntBitLen(_)
IntBitLen(x) == IF x = 0 THEN 0 ELSE 1 + IntBitLen(x \div 2)

\* the number of bits of a
BBitLen(a) == IF a = <<>> THEN 0 ELSE (Len(a) - 1) * LimbBits + IntBitLen(a[Len(a)])

\* a mod b, by subtracting b * 2^i for i from n down to 0
RECURSIVE BModFrom(_, _, _)
BModFrom(a, b, n) ==
    IF n < 0 THEN a
    ELSE LET t == BShl(b, n)
         IN  BModFrom(IF BCmp(a, t) >= 0 THEN BSub(a, t) ELSE a, b, n - 1)

BMod(a, b) == BModFrom(a, b, BBitLen(a) - BBitLen(b))

\* n <= LimbBits steps of binary long division of r by d for r < 2 * d:
\* <<q, r1>> with q = (r * 2^(n-1)) \div d and r1 = 2 * ((r * 2^(n-1)) % d)
BDivSetBit(rest, n) == <<2^(n - 1) + rest[1], rest[2]>>

RECURSIVE BDivBits(_, _, _)
BDivBits(r, d, n) ==
    IF n = 0 THEN <<0, r>>
    ELSE IF BCmp(r, d) >= 0
         THEN BDivSetBit(BDivBits(BMulSmall(BSub(r, d), 2), d, n - 1), n)
         ELSE BDivBits(BMulSmall(r, 2), d, n - 1)

\* the same for n limbs of quotient, the most significant limb first
BDivJoin(limb, rest) == <<rest[1] \o <<limb>>, rest[2]>>

RECURSIVE BDivLimbs(_, _, _)
RECURSIVE BDivNext(_, _, _)
BDivNext(top, d, n) == BDivJoin(top[1], BDivLimbs(top[2], d, n - 1))

BDivLimbs(r, d, n) ==
    IF n = 0 THEN <<<<>>, r>> ELSE BDivNext(BDivBits(r, d, LimbBits), d, n)

(***************************************************************************)
(* f64 (IEEE 754 binary64, round to nearest, ties to even).  A finite      *)
(* number is (-1)^s * m * 2^e with m = 0 or 2^52 <= m < 2^53; every value  *)
(* of these conversions lies far inside the exponent range of f64, which   *)
(* is therefore not bounded here.  A zero result of these operations is    *)
(* always +0.0 (x - x, 0 / x and 0 * x with x > 0), so zero has no sign.   *)
(***************************************************************************)
Precision == 53
\* limbs of quotient that a division computes before it rounds: 60 bits
QuotientLimbs == 4

Fin(s, m, e) == [k |-> "fin", s |-> s, m |-> m, e |-> e]
FZero == Fin(0, <<>>, 0)
FNaN == [k |-> "nan", s |-> 0, m |-> <<>>, e |-> 0]
FInf(s) == [k |-> "inf", s |-> s, m |-> <<>>, e |-> 0]

IsZero(a) == a.k = "fin" /\ a.m = <<>>

MinInt(x, y) == IF x < y THEN x ELSE y

\* rounding to nearest, ties to even: whether n \div 2^sh is rounded up
RoundsUp(n, sh, sticky) ==
    /\ BBit(n, sh - 1) = 1
    /\ sticky \/ ~BLowZero(n, sh - 1) \/ BBit(n, sh) = 1

\* a rounded significand q of 53 bits, or of 54 bits after a carry
RoundCarry(s, q, e) ==
    IF BBitLen(q) > Precision THEN Fin(s, BShr(q, 1), e + 1) ELSE Fin(s, q, e)

RoundShift(s, n, e, sticky, sh) ==
    IF sh <= 0 THEN Fin(s, BShl(n, 0 - sh), e + sh)
    ELSE RoundCarry(s,
                    IF RoundsUp(n, sh, sticky) THEN BAdd(BShr(n, sh), <<1>>) ELSE BShr(n, sh),
                    e + sh)

\* the f64 nearest to (-1)^s * n * 2^e for n > 0, or to a value just above
\* n * 2^e in magnitude when sticky
RoundPack(s, n, e, sticky) == RoundShift(s, n, e, sticky, BBitLen(n) - Precision)

\* n as f64, for 0 <= n < Base
FromInt(n) == IF n = 0 THEN FZero ELSE RoundPack(0, <<n>>, 0, FALSE)

FNeg(a) == IF IsZero(a) \/ a.k = "nan" THEN a ELSE [a EXCEPT !.s = 1 - a.s]

FAbs(a) == [a EXCEPT !.s = 0]

\* the sum of (-1)^sa * na * 2^e and (-1)^sb * nb * 2^e, c compares na to nb
FAddCompared(sa, sb, na, nb, e, c) ==
    IF sa # sb /\ c = 0 THEN FZero
    ELSE RoundPack(IF sa = sb \/ c > 0 THEN sa ELSE sb,
                   IF sa = sb THEN BAdd(na, nb)
                   ELSE IF c > 0 THEN BSub(na, nb) ELSE BSub(nb, na),
                   e, FALSE)

FAddAligned(sa, sb, na, nb, e) == FAddCompared(sa, sb, na, nb, e, BCmp(na, nb))

\* a + b; an operand below a quarter of the last place of the other does
\* not change it
FAdd(a, b) ==
    IF a.k = "nan" \/ b.k = "nan" THEN FNaN
    ELSE IF a.k = "inf" THEN (IF b.k = "inf" /\ b.s # a.s THEN FNaN ELSE a)
    ELSE IF b.k = "inf" THEN b
    ELSE IF IsZero(a) THEN b
    ELSE IF IsZero(b) THEN a
    ELSE IF a.e - b.e > Precision + 2 THEN a
    ELSE IF b.e - a.e > Precision + 2 THEN b
    ELSE FAddAligned(a.s, b.s,
                     BShl(a.m, a.e - MinInt(a.e, b.e)),
                     BShl(b.m, b.e - MinInt(a.e, b.e)),
                     MinInt(a.e, b.e))

\* a - b
FSub(a, b) == FAdd(a, FNeg(b))

\* a * b
FMul(a, b) ==
    IF a.k = "nan" \/ b.k = "nan" THEN FNaN
    ELSE IF a.k = "inf" \/ b.k = "inf"
         THEN (IF IsZero(a) \/ IsZero(b) THEN FNaN ELSE FInf((a.s + b.s) % 2))
    ELSE IF IsZero(a) \/ IsZero(b) THEN FZero
    ELSE RoundPack((a.s + b.s) % 2, BMul(a.m, b.m), a.e + b.e, FALSE)

FDivRound(s, qr, e) == RoundPack(s, qr[1], e, qr[2] # <<>>)

\* a / b
FDiv(a, b) ==
    IF a.k = "nan" \/ b.k = "nan" THEN FNaN
    ELSE IF a.k = "inf" THEN (IF b.k = "inf" THEN FNaN ELSE FInf((a.s + b.s) % 2))
    ELSE IF b.k = "inf" THEN FZero
    ELSE IF IsZero(b) THEN (IF IsZero(a) THEN FNaN ELSE FInf((a.s + b.s) % 2))
    ELSE IF IsZero(a) THEN FZero
    ELSE FDivRound((a.s + b.s) % 2, BDivLimbs(a.m, b.m, QuotientLimbs),
                   a.e - b.e - (QuotientLimbs * LimbBits - 1))

FRemRound(s, r, e) == IF r = <<>> THEN FZero ELSE RoundPack(s, r, e, FALSE)

FRemAligned(s, na, nb, e) == FRemRound(s, IF BCmp(na, nb) < 0 THEN na ELSE BMod(na, nb), e)

\* a % b (fmod): the exact remainder, with the sign of a
FRem(a, b) ==
    IF a.k # "fin" \/ b.k = "nan" \/ IsZero(b) THEN FNaN
    ELSE IF b.k = "inf" \/ IsZero(a) THEN a
    ELSE FRemAligned(a.s,
                     BShl(a.m, a.e - MinInt(a.e, b.e)),
                     BShl(b.m, b.e - MinInt(a.e, b.e)),
                     MinInt(a.e, b.e))

\* a < b
FLt(a, b) ==
    IF a.k = "nan" \/ b.k = "nan" THEN FALSE
    ELSE IF a.k = "inf" THEN a.s = 1 /\ ~(b.k = "inf" /\ b.s = 1)
    ELSE IF b.k = "inf" THEN b.s = 0
    ELSE IF IsZero(a) THEN ~IsZero(b) /\ b.s = 0
    ELSE IF IsZero(b) THEN a.s = 1
    ELSE IF a.s # b.s THEN a.s = 1
    ELSE IF a.s = 0 THEN a.e < b.e \/ (a.e = b.e /\ BCmp(a.m, b.m) < 0)
    ELSE a.e > b.e \/ (a.e = b.e /\ BCmp(a.m, b.m) > 0)

\* a == b
FEq(a, b) == a.k # "nan" /\ b.k # "nan" /\ a = b

\* a <= b
FLe(a, b) == FLt(a, b) \/ FEq(a, b)

\* f64::max and f64::min: the other operand when one is NaN
FMax(a, b) == IF a.k = "nan" THEN b ELSE IF b.k = "nan" THEN a ELSE IF FLt(a, b) THEN b ELSE a
FMin(a, b) == IF a.k = "nan" THEN b ELSE IF b.k = "nan" THEN a ELSE IF FLt(b, a) THEN b ELSE a

(***************************************************************************)
(* The conversions.  Each let-binding of the source is a parameter of the  *)
(* operator that models the code after it.                                 *)
(***************************************************************************)
F1 == FromInt(1)
F2 == FromInt(2)
F4 == FromInt(4)
F6 == FromInt(6)
F60 == FromInt(60)
F100 == FromInt(100)
F255 == FromInt(255)
F360 == FromInt(360)

\* color.red as f64 / 255.0
Fraction(channel) == FDiv(FromInt(channel), F255)

\* the defensive check of the three conversions
InvalidRgb(c) ==
    \/ c.red \notin 0..255
    \/ c.green \notin 0..255
    \/ c.blue \notin 0..255

\* r.max(g).max(b) and r.min(g).min(b)
Max3(r, g, b) == FMax(FMax(r, g), b)
Min3(r, g, b) == FMin(FMin(r, g), b)

\* parse_rgb_to_hsl: lightness = (max + min) / 2.0
HslLightness(max, min) == FDiv(FAdd(max, min), F2)

\* parse_rgb_to_hsl: the divisor 1.0 - (2.0 * lightness - 1.0).abs()
HslDivisor(lightness) == FSub(F1, FAbs(FSub(FMul(F2, lightness), F1)))

HslSaturation_NoShortCircuit(delta, lightness) == FDiv(delta, HslDivisor(lightness))

\* parse_rgb_to_hsl: the saturation before it is scaled
HslSaturation(delta, lightness) ==
    IF FEq(delta, FZero) THEN FZero ELSE FDiv(delta, HslDivisor(lightness))

\* parse_rgb_to_hsl: the hue formula of each dominant channel
HslHueRed(g, b, delta) == FAdd(FDiv(FSub(g, b), delta), IF FLt(g, b) THEN F6 ELSE FZero)

HslHueGreen_Plus4(b, r, delta) == FAdd(FDiv(FSub(b, r), delta), F4)

HslHueGreen(b, r, delta) == FAdd(FDiv(FSub(b, r), delta), F2)

HslHueBlue(r, g, delta) == FAdd(FDiv(FSub(r, g), delta), F4)

\* parse_rgb_to_hsl: the hue before it is scaled
HslHue(r, g, b, max, delta) ==
    IF FEq(delta, FZero) THEN FZero
    ELSE IF FEq(max, r) THEN HslHueRed(g, b, delta)
    ELSE IF FEq(max, g) THEN HslHueGreen(b, r, delta)
    ELSE HslHueBlue(r, g, delta)

\* parse_rgb_to_hsl: Ok(Hsl { .. })
HslResult(hue, saturation, lightness) ==
    Ok([hue |-> FRem(FMul(hue, F60), F360),
        saturation |-> FMul(saturation, F100),
        lightness |-> FMul(lightness, F100)])

HslFromDelta(r, g, b, max, min, delta) ==
    HslResult(HslHue(r, g, b, max, delta),
              HslSaturation(delta, HslLightness(max, min)),
              HslLightness(max, min))

HslFromExtremes(r, g, b, max, min) == HslFromDelta(r, g, b, max, min, FSub(max, min))

HslFromFractions(r, g, b) == HslFromExtremes(r, g, b, Max3(r, g, b), Min3(r, g, b))

parse_rgb_to_hsl(c) ==
    IF InvalidRgb(c) THEN Err("InvalidRgbValue")
    ELSE HslFromFractions(Fraction(c.red), Fraction(c.green), Fraction(c.blue))

\* parse_rgb_to_hsv: the saturation before it is scaled
HsvSaturation(delta, value) == IF FEq(delta, FZero) THEN FZero ELSE FDiv(delta, value)

\* parse_rgb_to_hsv: the hue formula of each dominant channel
HsvHueRed(g, b, delta) == FAdd(FDiv(FSub(g, b), delta), IF FLt(g, b) THEN F6 ELSE FZero)

HsvHueGreen(b, r, delta) == FAdd(FDiv(FSub(b, r), delta), F2)

HsvHueBlue(r, g, delta) == FAdd(FDiv(FSub(r, g), delta), F4)

\* parse_rgb_to_hsv: the hue before it is scaled
HsvHue(r, g, b, max, delta) ==
    IF FEq(delta, FZero) THEN FZero
    ELSE IF FEq(max, r) THEN HsvHueRed(g, b, delta)
    ELSE IF FEq(max, g) THEN HsvHueGreen(b, r, delta)
    ELSE HsvHueBlue(r, g, delta)

\* parse_rgb_to_hsv: Ok(Hsv { .. })
HsvResult(hue, saturation, value) ==
    Ok([hue |-> FRem(FMul(hue, F60), F360),
        saturation |-> FMul(saturation, F100),
        value |-> FMul(value, F100)])

HsvFromDelta(r, g, b, max, delta) ==
    HsvResult(HsvHue(r, g, b, max, delta), HsvSaturation(delta, max), max)

HsvFromExtremes(r, g, b, max, min) == HsvFromDelta(r, g, b, max, FSub(max, min))

HsvFromFractions(r, g, b) == HsvFromExtremes(r, g, b, Max3(r, g, b), Min3(r, g, b))

parse_rgb_to_hsv_AlphaForBlue(c) ==
    IF InvalidRgb(c) THEN Err("InvalidRgbValue")
    ELSE HsvFromFractions(Fraction(c.red), Fraction(c.green), Fraction(c.alpha))

parse_rgb_to_hsv(c) ==
    IF InvalidRgb(c) THEN Err("InvalidRgbValue")
    ELSE HsvFromFractions(Fraction(c.red), Fraction(c.green), Fraction(c.blue))

\* parse_rgb_to_cmyk: the black key k = 1.0 - r.max(g).max(b)
CmykKey(r, g, b) == FSub(F1, Max3(r, g, b))

\* parse_rgb_to_cmyk: (1.0 - x - k) / (1.0 - k)
CmykChannel(x, k) == FDiv(FSub(FSub(F1, x), k), FSub(F1, k))

CmykFromKey_NoBlackCase(r, g, b, k) ==
    Ok([cyan |-> FMul(CmykChannel(r, k), F100),
        magenta |-> FMul(CmykChannel(g, k), F100),
        yellow |-> FMul(CmykChannel(b, k), F100),
        black |-> FMul(k, F100)])

\* parse_rgb_to_cmyk: the branch on k == 1.0 and the two results
CmykFromKey(r, g, b, k) ==
    IF FEq(k, F1)
    THEN Ok([cyan |-> FMul(FZero, F100),
             magenta |-> FMul(FZero, F100),
             yellow |-> FMul(FZero, F100),
             black |-> F100])
    ELSE Ok([cyan |-> FMul(CmykChannel(r, k), F100),
             magenta |-> FMul(CmykChannel(g, k), F100),
             yellow |-> FMul(CmykChannel(b, k), F100),
             black |-> FMul(k, F100)])

CmykFromFractions(r, g, b) == CmykFromKey(r, g, b, CmykKey(r, g, b))

parse_rgb_to_cmyk(c) ==
    IF InvalidRgb(c) THEN Err("InvalidRgbValue")
    ELSE CmykFromFractions(Fraction(c.red), Fraction(c.green), Fraction(c.blue))

(***************************************************************************)
(* The conversions as a state machine: the three conversions of one Rgba   *)
(* value, in the order in which run() calls them.                          *)
(***************************************************************************)
\* channel values that are tried: 0..MaxDark, 255-MaxBright..255 and the
\* values that the tests of the repository use
MaxDark == 5
MaxBright == 1
TestChannels == {128, 139}
Channels == (0..MaxDark) \cup ((255 - MaxBright)..255) \cup TestChannels
Alphas == {0, 255}

\* every achromatic colour
Grays == {Rgba(c, c, c, a) : c \in 0..255, a \in Alphas}

Colors ==
    {Rgba(r, g, b, a) : r \in Channels, g \in Channels, b \in Channels, a \in Alphas} \cup Grays

InitConv ==
    /\ color \in Colors
    /\ input = <<>>
    /\ result = None
    /\ hsl = None
    /\ hsv = None
    /\ cmyk = None
    /\ pc = "hsl"

ParseRgbToHsl ==
    /\ pc = "hsl"
    /\ hsl' = parse_rgb_to_hsl(color)
    /\ pc' = "hsv"
    /\ UNCHANGED <<input, result, color, hsv, cmyk>>

ParseRgbToHsv ==
    /\ pc = "hsv"
    /\ hsv' = parse_rgb_to_hsv(color)
    /\ pc' = "cmyk"
    /\ UNCHANGED <<input, result, color, hsl, cmyk>>

ParseRgbToCmyk ==
    /\ pc = "cmyk"
    /\ cmyk' = parse_rgb_to_cmyk(color)
    /\ pc' = "done"
    /\ UNCHANGED <<input, result, color, hsl, hsv>>

NextConv == ParseRgbToHsl \/ ParseRgbToHsv \/ ParseRgbToCmyk

SpecConv == InitConv /\ [][NextConv]_vars

(***************************************************************************)
(* The library as a whole: a caller either parses a string or converts an  *)
(* Rgba value.                                                             *)
(***************************************************************************)
InitLib == InitHex \/ InitConv

NextLib == NextHex \/ NextConv

SpecLib == InitLib /\ [][NextLib]_vars

(***************************************************************************)
(* Vocabulary of the claims about the parser.                              *)
(***************************************************************************)
\* the input with at most one leading '#' removed
StripOne(s) == IF s # <<>> /\ Head(s) = 35 THEN Tail(s) ELSE s

\* 0-9, A-F, a-f
IsHexDigit(c) == c \in (48..57) \cup (65..70) \cup (97..102)

AllHexDigits(s) == \A i \in 1..Len(s) : IsHexDigit(s[i])

HexLengths == {3, 4, 6, 8}

\* the value of a hex digit, read off the digit table
DigitTable == <<48, 49, 50, 51, 52, 53, 54, 55, 56, 57, 97, 98, 99, 100, 101, 102>>
RefDigit(c) ==
    LET lower == IF c \in 65..70 THEN c + 32 ELSE c
    IN  (CHOOSE i \in 1..16 : DigitTable[i] = lower) - 1

\* the reference expansion to 8 digits
RefExpand(s) ==
    IF Len(s) = 8 THEN s
    ELSE IF Len(s) = 6 THEN s \o <<70, 70>>
    ELSE IF Len(s) = 4 THEN <<s[1], s[1], s[2], s[2], s[3], s[3], s[4], s[4]>>
    ELSE <<s[1], s[1], s[2], s[2], s[3], s[3], 70, 70>>

RefPair(e, i) == 16 * RefDigit(e[i]) + RefDigit(e[i + 1])

RefRgba(s) ==
    LET e == RefExpand(s)
    IN  Rgba(RefPair(e, 1), RefPair(e, 3), RefPair(e, 5), RefPair(e, 7))

ToLower(s) == [i \in 1..Len(s) |-> IF s[i] \in 65..70 THEN s[i] + 32 ELSE s[i]]
ToUpper(s) == [i \in 1..Len(s) |-> IF s[i] \in 97..102 THEN s[i] - 32 ELSE s[i]]

\* C1: an input whose body (after the '#' is stripped) has 3, 4, 6 or 8
\* characters of which at least one is not a hex digit fails with
\* InvalidCharacter.
C1_NonHexIsInvalidCharacter ==
    (/\ pc = "parsed"
     /\ Len(StripOne(input)) \in HexLengths
     /\ ~AllHexDigits(StripOne(input)))
    => result = Err("InvalidCharacter")

\* C2: only one leading '#' is stripped: the result for "#" + s is the result
\* of parsing s with no further stripping.
C2_StripsAtMostOneHash ==
    (pc = "parsed" /\ input # <<>> /\ Head(input) = 35)
    => result = ParseBody(Tail(input))

\* C3: every call returns an Rgba value with four 8-bit channels or one of
\* the named errors; it never aborts.
C3_Total ==
    pc = "parsed"
    => \/ /\ result.tag = "Ok"
          /\ result.val \in [red : 0..255, green : 0..255, blue : 0..255, alpha : 0..255]
       \/ /\ result.tag = "Err"
          /\ result.kind \in {"InvalidLength", "InvalidCharacter", "InvalidRgbValue"}

\* C4: an input whose body has a number of characters other than 3, 4, 6 or
\* 8 fails with InvalidLength, whatever its characters are.
C4_WrongLengthIsInvalidLength ==
    (pc = "parsed" /\ Len(StripOne(input)) \notin HexLengths)
    => result = Err("InvalidLength")

\* C5: a body of 3, 4, 6 or 8 hex digits parses to the reference value: the
\* digit pairs of the 8-digit expansion; 3 and 6 digits give alpha 255, a
\* shorthand digit d gives 17 * d, and the shorthand parses like its
\* doubled form.
C5_HexDigitsParseToReference ==
    LET body == StripOne(input)
    IN  (pc = "parsed" /\ Len(body) \in HexLengths /\ AllHexDigits(body))
        => /\ result = Ok(RefRgba(body))
           /\ Len(body) \in {3, 6} => result.val.alpha = 255
           /\ Len(body) \in {3, 4} =>
                 /\ result.val.red = 17 * RefDigit(body[1])
                 /\ result.val.green = 17 * RefDigit(body[2])
                 /\ result.val.blue = 17 * RefDigit(body[3])
                 /\ parse_hex_to_rgba(DoubleChars(body)) = result

C5_Witness ==
    /\ pc = "parsed"
    /\ input = <<35, 51, 97, 65>>
    /\ result = Ok(Rgba(51, 170, 170, 255))

\* C6: changing the case of any letters a-f / A-F of the input does not
\* change the outcome: every input has the outcome of its lower-case and of
\* its upper-case form.
C6_CaseInsensitive ==
    pc = "parsed"
    => /\ parse_hex_to_rgba(ToLower(input)) = result
       /\ parse_hex_to_rgba(ToUpper(input)) = result

C6_Witness ==
    /\ pc = "parsed"
    /\ input = <<97, 65, 51, 65, 97, 97>>
    /\ result = Ok(Rgba(170, 58, 170, 255))

(***************************************************************************)
(* Vocabulary of the claims about the conversions.                         *)
(***************************************************************************)
\* 0 <= x <= 100
IsPercentage(x) == FLe(FZero, x) /\ FLe(x, F100)

\* 0 <= h < 360
IsHue(h) == FLe(FZero, h) /\ FLt(h, F360)

Achromatic(c) == c.red = c.green /\ c.green = c.blue

\* max, min, delta and lightness as parse_rgb_to_hsl computes them
MaxOf(c) == Max3(Fraction(c.red), Fraction(c.green), Fraction(c.blue))
MinOf(c) == Min3(Fraction(c.red), Fraction(c.green), Fraction(c.blue))
DeltaOf(c) == FSub(MaxOf(c), MinOf(c))
LightnessOf(c) == HslLightness(MaxOf(c), MinOf(c))
\* k as parse_rgb_to_cmyk computes it
KeyOf(c) == CmykKey(Fraction(c.red), Fraction(c.green), Fraction(c.blue))

MinChannel(c) == CHOOSE x \in {c.red, c.green, c.blue} : \A y \in {c.red, c.green, c.blue} : x <= y
MaxChannel(c) == CHOOSE x \in {c.red, c.green, c.blue} : \A y \in {c.red, c.green, c.blue} : x >= y

\* C7: the hue of HSL and HSV is in [0, 360), saturation, lightness and
\* value are in [0, 100]; when delta is not 0 the HSL divisor is not 0 and
\* the saturation quotient is at most 1.
C7_ChannelRanges ==
    pc = "done"
    => /\ hsl.tag = "Ok" /\ hsv.tag = "Ok"
       /\ IsHue(hsl.val.hue) /\ IsHue(hsv.val.hue)
       /\ IsPercentage(hsl.val.saturation) /\ IsPercentage(hsl.val.lightness)
       /\ IsPercentage(hsv.val.saturation) /\ IsPercentage(hsv.val.value)
       /\ ~FEq(DeltaOf(color), FZero)
             => /\ ~FEq(HslDivisor(LightnessOf(color)), FZero)
                /\ FLe(HslSaturation(DeltaOf(color), LightnessOf(color)), F1)

\* C8: the k == 1 branch of parse_rgb_to_cmyk is taken exactly for black and
\* gives 0, 0, 0, 100; for every other colour 1 - k > 0 and the four
\* channels are in [0, 100]; white gives 0, 0, 0, 0.
C8_CmykSafeAndInRange ==
    pc = "done"
    => /\ cmyk.tag = "Ok"
       /\ FEq(KeyOf(color), F1) <=> (color.red = 0 /\ color.green = 0 /\ color.blue = 0)
       /\ (color.red = 0 /\ color.green = 0 /\ color.blue = 0)
             => cmyk.val = [cyan |-> FZero, magenta |-> FZero, yellow |-> FZero, black |-> F100]
       /\ ~(color.red = 0 /\ color.green = 0 /\ color.blue = 0)
             => FLt(FZero, FSub(F1, KeyOf(color)))
       /\ IsPercentage(cmyk.val.cyan) /\ IsPercentage(cmyk.val.magenta)
       /\ IsPercentage(cmyk.val.yellow) /\ IsPercentage(cmyk.val.black)
       /\ (color.red = 255 /\ color.green = 255 /\ color.blue = 255)
             => cmyk.val = [cyan |-> FZero, magenta |-> FZero, yellow |-> FZero, black |-> FZero]

C8_Witness ==
    /\ pc = "done"
    /\ color.red = 139 /\ color.green = 0 /\ color.blue = 255
    /\ cmyk.tag = "Ok"
    /\ cmyk.val.yellow = FZero
    /\ cmyk.val.magenta = F100
    /\ FLt(FZero, cmyk.val.cyan) /\ FLt(cmyk.val.cyan, F100)

\* C9: two Rgba values that differ only in alpha have the same HSL, HSV and
\* CMYK results.
C9_AlphaNeverConsulted ==
    pc = "done"
    => \A a \in Alphas :
          LET other == [color EXCEPT !.alpha = a]
          IN  /\ parse_rgb_to_hsl(other) = hsl
              /\ parse_rgb_to_hsv(other) = hsv
              /\ parse_rgb_to_cmyk(other) = cmyk

C9_Witness ==
    /\ pc = "done"
    /\ color = Rgba(128, 139, 255, 0)
    /\ hsl.tag = "Ok" /\ hsv.tag = "Ok" /\ cmyk.tag = "Ok"
    /\ parse_rgb_to_hsv(Rgba(128, 139, 255, 255)) = hsv

\* the hue of the six colours whose channels are 0 or 255 and not all equal
SextantHue(c) ==
    IF c.red = 255 /\ c.green = 0 /\ c.blue = 0 THEN 0
    ELSE IF c.red = 255 /\ c.green = 255 /\ c.blue = 0 THEN 60
    ELSE IF c.red = 0 /\ c.green = 255 /\ c.blue = 0 THEN 120
    ELSE IF c.red = 0 /\ c.green = 255 /\ c.blue = 255 THEN 180
    ELSE IF c.red = 0 /\ c.green = 0 /\ c.blue = 255 THEN 240
    ELSE 300

\* C10: a colour whose channels are 0 or 255 and not all equal has its exact
\* sextant hue, HSL saturation 100 and lightness 50, HSV saturation 100 and
\* value 100; whenever the smallest channel is 0 and the largest is not,
\* the HSL and the HSV saturation are exactly 100.
C10_ExactPrimaries ==
    pc = "done"
    => /\ ({color.red, color.green, color.blue} \subseteq {0, 255} /\ ~Achromatic(color))
             => /\ hsl.val = [hue |-> FromInt(SextantHue(color)),
                              saturation |-> F100,
                              lightness |-> FromInt(50)]
                /\ hsv.val = [hue |-> FromInt(SextantHue(color)),
                              saturation |-> F100,
                              value |-> F100]
       /\ (MinChannel(color) = 0 /\ MaxChannel(color) # 0)
             => /\ hsl.val.saturation = F100
                /\ hsv.val.saturation = F100

\* the distance of two natural numbers in limbs
BDist(a, b) == IF BCmp(a, b) >= 0 THEN BSub(a, b) ELSE BSub(b, a)

\* x is 100 * c / 255 up to two units of the last place of x, that is
\* |255 * m - 100 * c * 2^(-e)| <= 255 * 2 for x = m * 2^e
IsPercentOf(x, c) ==
    IF c = 0 THEN x = FZero
    ELSE /\ x.k = "fin"
         /\ x.s = 0
         /\ x.e < 0
         /\ BCmp(BDist(BMulSmall(x.m, 255), BShl(<<100 * c>>, 0 - x.e)), <<255 * 2>>) <= 0

ScaledHue(h) == FRem(FMul(h, F60), F360)

\* the hues, in degrees, of the branches whose channel equals max
TiedHues(r, g, b, max, delta) ==
    (IF FEq(max, r)
     THEN {ScaledHue(HslHueRed(g, b, delta)), ScaledHue(HsvHueRed(g, b, delta))} ELSE {})
    \cup (IF FEq(max, g)
          THEN {ScaledHue(HslHueGreen(b, r, delta)), ScaledHue(HsvHueGreen(b, r, delta))} ELSE {})
    \cup (IF FEq(max, b)
          THEN {ScaledHue(HslHueBlue(r, g, delta)), ScaledHue(HsvHueBlue(r, g, delta))} ELSE {})

TiedHuesOf(c) ==
    TiedHues(Fraction(c.red), Fraction(c.green), Fraction(c.blue), MaxOf(c), DeltaOf(c))

\* two channels are equal to max and the third is not
TwoAtMax(c) ==
    /\ ~Achromatic(c)
    /\ Cardinality({x \in {"red", "green", "blue"} : c[x] = MaxChannel(c)}) = 2

\* C13: the hue does not depend on the order in which the dominant channel
\* is tested: when delta is not 0 the branches of all channels that equal
\* max give one and the same hue after the scaling by 60 and the reduction
\* modulo 360, which is the hue returned; and parse_rgb_to_hsl and
\* parse_rgb_to_hsv return the same hue for every Rgba value.
C13_HueIndependentOfTieBreak ==
    pc \in {"cmyk", "done"} =>
        /\ hsl.tag = "Ok" /\ hsv.tag = "Ok"
        /\ hsl.val.hue = hsv.val.hue
        /\ ~FEq(DeltaOf(color), FZero) => TiedHuesOf(color) = {hsl.val.hue}

\* yellow: red and green are both the maximum, either branch gives 60
C13_Witness ==
    /\ pc = "done"
    /\ color = Rgba(255, 255, 0, 255)
    /\ TwoAtMax(color)
    /\ TiedHuesOf(color) = {F60}
    /\ hsl.val.hue = F60
    /\ hsv.val.hue = F60

====
